---- MODULE Spec2Model ----
(***************************************************************************)
(* Model of src/script.js: the "completed / given" single-page list app.   *)
(*                                                                         *)
(* State: the two localStorage slots, the two visible lists and the two    *)
(* tab labels of the page, the add button (glyph, reset-mode class), the   *)
(* controller's pressTimer / isResetMode, the browser's table of pending   *)
(* timeouts and the wall clock read by new Date().                         *)
(*                                                                         *)
(* Every event listener runs to completion, so each is one action.         *)
(***************************************************************************)
EXTENDS Integers, Sequences, FiniteSets

\* ---- bounds of the model ----
MaxClock == 4000      \* the clock stops advancing here (ms)
TickMs == 1000        \* granularity by which the modelled clock advances
DayMs == 2000         \* length of a calendar day on the modelled clock
MaxAdds == 3          \* adds allowed since the last confirmed reset
MaxTimers == 2        \* setTimeout calls allowed per page load

\* ---- program constants ----
PressDelayMs == 3000  \* window.setTimeout(enterResetMode, 3000)

VARIABLES
    completionEntriesSlot,  \* localStorage[COMPLETED_STORAGE_KEY]
    givenEntriesSlot,       \* localStorage[GIVEN_STORAGE_KEY]
    completionList,         \* rows of <ul id="completion-list">, top first
    givenList,              \* rows of <ul id="given-list">, top first
    tabCompleted,           \* textContent of the Completed tab
    tabGiven,               \* textContent of the Given tab
    completeButton,         \* add button: [text, resetMode (class present)]
    pressTimer,             \* handle of the last setTimeout, 0 while undefined
    isResetMode,            \* the armed flag
    timers,                 \* browser: pending timeouts, each [id, deadline]
    nextTimerId,            \* browser: next handle setTimeout returns
    clock,                  \* wall clock, ms
    lastHandler,            \* history: the handler that ran last
    addedSinceReset,        \* history: adds since the last confirmed reset
    earlyReleased,          \* history: handles of the pending timeouts whose
                            \* press was followed by a mouseup / mouseleave
                            \* before the deadline
    tabView,                \* classes of the two tabs and the two pages, and
                            \* style.display of the add button
    faults,                 \* [quotaExceeded: setItem throws,
                            \*  listening: the listeners of the initial load
                            \*  are attached, uncaught: history, a handler
                            \*  ended with an uncaught exception]
    midTransfer,            \* <<>>, or the one handleTransfer call that has
                            \* saved Completed and not yet Given
    otherView               \* lists and labels of a second page open on the
                            \* same localStorage

storeVars == <<completionEntriesSlot, givenEntriesSlot>>
domVars == <<completionList, givenList, tabCompleted, tabGiven>>
modeVars == <<completeButton, isResetMode>>
timerVars == <<pressTimer, timers, nextTimerId, earlyReleased>>
extVars == <<tabView, faults, midTransfer, otherView>>
vars == <<completionEntriesSlot, givenEntriesSlot, completionList, givenList,
          tabCompleted, tabGiven, completeButton, pressTimer, isResetMode,
          timers, nextTimerId, clock, lastHandler, addedSinceReset,
          earlyReleased, tabView, faults, midTransfer, otherView>>

\* ---- localStorage and JSON ----

\* getItem on a key that was never set returns null
NullItem == [present |-> FALSE, valid |-> TRUE, items |-> <<>>]

\* a stored text that is not JSON
CorruptItem == [present |-> TRUE, valid |-> FALSE, items |-> <<>>]

\* JSON.stringify of an array of flat records of numbers and strings: the
\* text lists the elements in array order, and is never the empty string
JSONStringify(entries) == [present |-> TRUE, valid |-> TRUE, items |-> entries]

\* JSON.parse of such a text gives back the array, element by element
JSONParse(text) == [i \in 1..Len(text.items) |-> text.items[i]]

\* entriesJSON ? JSON.parse(entriesJSON) : []
LoadEntries(slot) == IF slot.present THEN JSONParse(slot) ELSE <<>>

\* JSON.parse throws a SyntaxError on a text that is not JSON, and no
\* caller of the load functions catches it
LoadThrows(slot) == slot.present /\ ~slot.valid

loadCompletedEntries == LoadEntries(completionEntriesSlot)
loadGivenEntries == LoadEntries(givenEntriesSlot)

\* ---- entry construction ----

\* now.toLocaleDateString(undefined, {year, month, day}): the calendar day
\* the instant falls in; many instants share one date
FormatDate(now) == now \div DayMs

CompletedContent(now) == [prefix |-> "Completed on ", date |-> FormatDate(now)]

NewEntry(now) == [id |-> now, content |-> CompletedContent(now)]

NewGivenEntry_UsesToday(entryObject, now) ==
    [completedOn |-> CompletedContent(now),
     givenOn |-> [prefix |-> "Given on: ", date |-> FormatDate(now)]]

NewGivenEntry(entryObject, now) ==
    [completedOn |-> entryObject.content,
     givenOn |-> [prefix |-> "Given on: ", date |-> FormatDate(now)]]

\* ---- DOM rows ----

\* the <li> keeps the text and, in the onclick closure, the entry object
createCompletedListItem(entryObject) ==
    [text |-> entryObject.content, entryObject |-> entryObject]

createGivenListItem(entryObject) ==
    [completedText |-> entryObject.completedOn,
     givenText |-> entryObject.givenOn]

\* element.remove() of the i-th child
RemoveAt(s, i) == SubSeq(s, 1, i - 1) \o SubSeq(s, i + 1, Len(s))

\* ---- UI functions ----

TabLabel(name, count) == [name |-> name, count |-> count]

CompletedLabelOf(cSlot) == TabLabel("Completed", Len(LoadEntries(cSlot)))

GivenLabelOf_CountsCompleted(gSlot) ==
    TabLabel("Given", Len(loadCompletedEntries))

GivenLabelOf(gSlot) == TabLabel("Given", Len(LoadEntries(gSlot)))

\* updateTabCounts, run when the slots hold cSlot and gSlot: both labels
\* are recomputed from the slots
updateTabCounts(cSlot, gSlot) ==
    /\ tabCompleted' = CompletedLabelOf(cSlot)
    /\ tabGiven' = GivenLabelOf(gSlot)

RenderCompleted_NoClear(cSlot) ==
    LET completedEntries == LoadEntries(cSlot)
    IN  completionList \o [i \in 1..Len(completedEntries) |->
                              createCompletedListItem(completedEntries[i])]

\* completionList.innerHTML = '' and one appended row per stored entry
RenderCompleted(cSlot) ==
    LET completedEntries == LoadEntries(cSlot)
    IN  [i \in 1..Len(completedEntries) |->
            createCompletedListItem(completedEntries[i])]

RenderGiven_Reversed(gSlot) ==
    LET givenEntries == LoadEntries(gSlot)
    IN  [i \in 1..Len(givenEntries) |->
            createGivenListItem(givenEntries[Len(givenEntries) + 1 - i])]

\* givenList.innerHTML = '' and one appended row per stored entry
RenderGiven(gSlot) ==
    LET givenEntries == LoadEntries(gSlot)
    IN  [i \in 1..Len(givenEntries) |-> createGivenListItem(givenEntries[i])]

\* renderList, run when the slots hold cSlot and gSlot
renderList(cSlot, gSlot) ==
    /\ completionList' = RenderCompleted(cSlot)
    /\ givenList' = RenderGiven(gSlot)

\* ---- the add button's glyph and class ----
ResetGlyph == [text |-> "reset", resetMode |-> TRUE]
PlusGlyph == [text |-> "+", resetMode |-> FALSE]

\* ---- tabs, pages and the add button's display ----

\* before the first tab click the classes and the inline display are the
\* ones of the page's markup
MarkupView ==
    [tabCompletedActive |-> "markup", tabGivenActive |-> "markup",
     pageCompletedHidden |-> "markup", pageGivenHidden |-> "markup",
     buttonDisplay |-> "markup"]

\* ---- exceptions ----

\* storage has room, the initial load reached its end, nothing was thrown
NoFaults == [quotaExceeded |-> FALSE, listening |-> TRUE, uncaught |-> FALSE]

\* ---- a second page on the same localStorage ----

\* what the initial load of a page shows when the slots hold cSlot, gSlot
OtherViewOf(cSlot, gSlot) ==
    [completionList |-> RenderCompleted(cSlot),
     givenList |-> RenderGiven(gSlot),
     tabCompleted |-> CompletedLabelOf(cSlot),
     tabGiven |-> GivenLabelOf(gSlot)]

\* ---- initial load ----

\* first visit: both slots absent; the listener body has run to its end
Init ==
    /\ completionEntriesSlot = NullItem
    /\ givenEntriesSlot = NullItem
    /\ completionList = RenderCompleted(NullItem)
    /\ givenList = RenderGiven(NullItem)
    /\ tabCompleted = CompletedLabelOf(NullItem)
    /\ tabGiven = GivenLabelOf(NullItem)
    /\ completeButton = PlusGlyph
    /\ pressTimer = 0
    /\ isResetMode = FALSE
    /\ timers = {}
    /\ nextTimerId = 1
    /\ clock = 0
    /\ lastHandler = "load"
    /\ addedSinceReset = 0
    /\ earlyReleased = {}
    /\ tabView = MarkupView
    /\ faults = NoFaults
    /\ midTransfer = <<>>
    /\ otherView = OtherViewOf(NullItem, NullItem)

\* ---- event handlers ----

Prepend_Pushes(x, s) == s \o <<x>>

Prepend_Replaces(x, s) == <<x>>

\* array.unshift(x) and list.prepend(row)
Prepend(x, s) == <<x>> \o s

\* handleAddEntry: the row is prepended to the visible list, the entry to
\* the stored array, then the labels are refreshed
handleAddEntry ==
    /\ addedSinceReset < MaxAdds
    /\ LET newEntry == NewEntry(clock)
           listItem == createCompletedListItem(newEntry)
           currentEntries == Prepend(newEntry, loadCompletedEntries)
           saved == JSONStringify(currentEntries)
       IN  /\ completionList' = Prepend(listItem, completionList)
           /\ completionEntriesSlot' = saved
           /\ updateTabCounts(saved, givenEntriesSlot)
    /\ addedSinceReset' = addedSinceReset + 1
    /\ lastHandler' = "add"
    /\ UNCHANGED <<givenEntriesSlot, givenList, modeVars, timerVars, clock,
                   extVars>>

FilterOutId_KeepsMatches(completedEntries, id) ==
    SelectSeq(completedEntries, LAMBDA entry : entry.id = id)

\* some stored entry has this id
HasId(entries, id) == \E k \in 1..Len(entries) : entries[k].id = id

\* completedEntries.filter(entry => entry.id !== entryObject.id)
FilterOutId(completedEntries, id) ==
    SelectSeq(completedEntries, LAMBDA entry : entry.id # id)

\* handleTransfer(entryObject, listItemElement), called by the onclick of
\* the i-th visible Completed row with the entry of its closure
handleTransfer(i) ==
    LET entryObject == completionList[i].entryObject
        completedEntries == FilterOutId(loadCompletedEntries, entryObject.id)
        savedCompleted == JSONStringify(completedEntries)
        newGivenEntry == NewGivenEntry(entryObject, clock)
        givenListItem == createGivenListItem(newGivenEntry)
        givenEntries == Prepend(newGivenEntry, loadGivenEntries)
        savedGiven == JSONStringify(givenEntries)
    IN  /\ completionList' = RemoveAt(completionList, i)
        /\ completionEntriesSlot' = savedCompleted
        /\ givenList' = Prepend(givenListItem, givenList)
        /\ givenEntriesSlot' = savedGiven
        /\ updateTabCounts(savedCompleted, savedGiven)
        /\ lastHandler' = IF HasId(loadCompletedEntries, entryObject.id)
                           THEN "transfer" ELSE "transferAbsent"
        /\ UNCHANGED <<modeVars, timerVars, clock, addedSinceReset, extVars>>

\* enterResetMode: the callback of the press timeout
enterResetMode ==
    /\ isResetMode' = TRUE
    /\ completeButton' = ResetGlyph

exitResetMode_KeepsFlag ==
    /\ isResetMode' = isResetMode
    /\ completeButton' = PlusGlyph

exitResetMode ==
    /\ isResetMode' = FALSE
    /\ completeButton' = PlusGlyph

ClearIfConfirmed_IgnoresAnswer(confirmed) ==
    LET savedCompleted == JSONStringify(<<>>)
        savedGiven == JSONStringify(<<>>)
    IN  /\ completionEntriesSlot' = savedCompleted
        /\ givenEntriesSlot' = savedGiven
        /\ renderList(savedCompleted, savedGiven)
        /\ updateTabCounts(savedCompleted, savedGiven)
        /\ addedSinceReset' = 0

\* the body of handleReset's if (window.confirm(...)) with its answer
ClearIfConfirmed(confirmed) ==
    IF confirmed
    THEN LET savedCompleted == JSONStringify(<<>>)
             savedGiven == JSONStringify(<<>>)
         IN  /\ completionEntriesSlot' = savedCompleted
             /\ givenEntriesSlot' = savedGiven
             /\ renderList(savedCompleted, savedGiven)
             /\ updateTabCounts(savedCompleted, savedGiven)
             /\ addedSinceReset' = 0
    ELSE UNCHANGED <<storeVars, domVars, addedSinceReset>>

\* handleReset with the answer window.confirm gives; exitResetMode runs
\* on both branches
handleReset(confirmed) ==
    /\ ClearIfConfirmed(confirmed)
    /\ exitResetMode
    /\ lastHandler' = IF confirmed THEN "resetConfirmed" ELSE "resetDeclined"
    /\ UNCHANGED <<timerVars, clock, extVars>>

handleButtonClick_Inverted(confirmed) ==
    IF isResetMode THEN handleAddEntry ELSE handleReset(confirmed)

\* handleButtonClick: the click listener of the add button
handleButtonClick(confirmed) ==
    IF isResetMode THEN handleReset(confirmed) ELSE handleAddEntry

\* handleButtonPress: the mousedown listener; the new handle overwrites
\* pressTimer
handleButtonPress ==
    /\ nextTimerId <= MaxTimers
    /\ timers' = timers \cup
                   {[id |-> nextTimerId, deadline |-> clock + PressDelayMs]}
    /\ pressTimer' = nextTimerId
    /\ nextTimerId' = nextTimerId + 1
    /\ lastHandler' = "press"
    /\ UNCHANGED <<storeVars, domVars, modeVars, clock, addedSinceReset,
                   earlyReleased, extVars>>

\* clearTimeout(handle): a pending timeout with that handle is dropped; an
\* undefined, fired or already cleared handle changes nothing
ClearTimeout(pending, handle) == {t \in pending : t.id # handle}

\* handleButtonRelease: the mouseup and mouseleave listener
handleButtonRelease ==
    /\ timers' = ClearTimeout(timers, pressTimer)
    /\ earlyReleased' = {t.id : t \in {u \in timers' : u.id \in earlyReleased
                                                  \/ clock < u.deadline}}
    /\ lastHandler' = "release"
    /\ UNCHANGED <<storeVars, domVars, modeVars, pressTimer, nextTimerId,
                   clock, addedSinceReset, extVars>>

\* the timeout the browser runs next: due, and the oldest of the due ones
DueTimers == {t \in timers : t.deadline <= clock}
NextDue == CHOOSE t \in DueTimers : \A u \in DueTimers : t.id <= u.id

\* the browser runs the callback of a due timeout
TimerFires ==
    /\ DueTimers # {}
    /\ timers' = timers \ {NextDue}
    /\ earlyReleased' = earlyReleased \ {NextDue.id}
    /\ enterResetMode
    /\ lastHandler' = "timer"
    /\ UNCHANGED <<storeVars, domVars, pressTimer, nextTimerId, clock,
                   addedSinceReset, extVars>>

\* time passes between events
Tick ==
    /\ clock + TickMs <= MaxClock
    /\ clock' = clock + TickMs
    /\ UNCHANGED <<storeVars, domVars, modeVars, timerVars, lastHandler,
                   addedSinceReset, extVars>>

\* a fresh document and script state, the lists and labels built by
\* renderList and updateTabCounts from localStorage
LoadPage ==
    /\ renderList(completionEntriesSlot, givenEntriesSlot)
    /\ updateTabCounts(completionEntriesSlot, givenEntriesSlot)
    /\ completeButton' = PlusGlyph
    /\ pressTimer' = 0
    /\ isResetMode' = FALSE
    /\ timers' = {}
    /\ nextTimerId' = 1
    /\ earlyReleased' = {}
    /\ lastHandler' = IF isResetMode THEN "loadFromArmed" ELSE "load"
    /\ tabView' = MarkupView
    /\ UNCHANGED <<storeVars, clock, addedSinceReset, faults, otherView>>

\* the page is loaded again between two handlers
Reload == LoadPage /\ UNCHANGED midTransfer

Next ==
    \/ Tick
    \/ \E confirmed \in BOOLEAN : handleButtonClick(confirmed)
    \/ \E i \in 1..Len(completionList) : handleTransfer(i)
    \/ handleButtonPress
    \/ handleButtonRelease
    \/ TimerFires

\* one page session
Spec == Init /\ [][Next]_vars

NextReload == Next \/ Reload

\* a sequence of page sessions over the same localStorage
SpecReload == Init /\ [][NextReload]_vars

\* ---- renderList on its own ----

MaxRenderLen == 2     \* longest stored sequence renderList is applied to
MaxStaleRows == 1     \* most rows visible in a list before renderList runs

BoundedSeqs(S, n) == UNION {[1..k -> S] : k \in 0..n}

RenderInstants == {0, DayMs}
RenderCompletedEntries == {NewEntry(t) : t \in RenderInstants}
RenderGivenEntries ==
    {NewGivenEntry(e, t) : e \in RenderCompletedEntries, t \in RenderInstants}

RenderSlots(S) ==
    {NullItem} \cup {JSONStringify(es) : es \in BoundedSeqs(S, MaxRenderLen)}

\* any stored sequences, and any rows left visible from before
InitRender ==
    /\ completionEntriesSlot \in RenderSlots(RenderCompletedEntries)
    /\ givenEntriesSlot \in RenderSlots(RenderGivenEntries)
    /\ completionList \in
         BoundedSeqs({createCompletedListItem(e) : e \in RenderCompletedEntries},
                     MaxStaleRows)
    /\ givenList \in
         BoundedSeqs({createGivenListItem(g) : g \in RenderGivenEntries},
                     MaxStaleRows)
    /\ tabCompleted = CompletedLabelOf(completionEntriesSlot)
    /\ tabGiven = GivenLabelOf(givenEntriesSlot)
    /\ completeButton = PlusGlyph
    /\ pressTimer = 0
    /\ isResetMode = FALSE
    /\ timers = {}
    /\ nextTimerId = 1
    /\ clock = 0
    /\ lastHandler = "none"
    /\ addedSinceReset = 0
    /\ earlyReleased = {}
    /\ tabView = MarkupView
    /\ faults = NoFaults
    /\ midTransfer = <<>>
    /\ otherView = OtherViewOf(completionEntriesSlot, givenEntriesSlot)

\* one call of renderList; lastHandler tells a repeated call from a first
RenderStep ==
    /\ renderList(completionEntriesSlot, givenEntriesSlot)
    /\ lastHandler' = IF lastHandler = "none" THEN "render" ELSE "render again"
    /\ UNCHANGED <<storeVars, tabCompleted, tabGiven, modeVars, timerVars,
                   clock, addedSinceReset, extVars>>

SpecRender == InitRender /\ [][RenderStep]_vars

\* ---- handleTransfer save by save ----

FirstSaveSlots_GivenFirst(entryObject) ==
    <<completionEntriesSlot,
      JSONStringify(Prepend(NewGivenEntry(entryObject, clock),
                            loadGivenEntries))>>

\* the two slots after the first setItem of handleTransfer
FirstSaveSlots(entryObject) ==
    <<JSONStringify(FilterOutId(loadCompletedEntries, entryObject.id)),
      givenEntriesSlot>>

\* handleTransfer up to and including its first save
transferFirstSave(i) ==
    LET entryObject == completionList[i].entryObject
        slots == FirstSaveSlots(entryObject)
    IN  /\ midTransfer = <<>>
        /\ completionList' = RemoveAt(completionList, i)
        /\ completionEntriesSlot' = slots[1]
        /\ givenEntriesSlot' = slots[2]
        /\ midTransfer' =
              <<[entryObject |-> entryObject,
                 wasStored |-> HasId(loadCompletedEntries, entryObject.id),
                 givenBefore |-> loadGivenEntries]>>
        /\ UNCHANGED <<givenList, tabCompleted, tabGiven, modeVars, timerVars,
                       clock, lastHandler, addedSinceReset, tabView, faults,
                       otherView>>

\* the rest of that handleTransfer call
transferSecondSave ==
    /\ midTransfer # <<>>
    /\ LET entryObject == midTransfer[1].entryObject
           newGivenEntry == NewGivenEntry(entryObject, clock)
           savedGiven == JSONStringify(Prepend(newGivenEntry, loadGivenEntries))
       IN  /\ givenList' = Prepend(createGivenListItem(newGivenEntry),
                                   givenList)
           /\ givenEntriesSlot' = savedGiven
           /\ updateTabCounts(completionEntriesSlot, savedGiven)
           /\ lastHandler' = IF midTransfer[1].wasStored
                              THEN "transfer" ELSE "transferAbsent"
    /\ midTransfer' = <<>>
    /\ UNCHANGED <<completionEntriesSlot, completionList, modeVars, timerVars,
                   clock, addedSinceReset, tabView, faults, otherView>>

\* the session ends between the two saves and the page is opened again
sessionEndsMidTransfer ==
    /\ midTransfer # <<>>
    /\ LoadPage
    /\ midTransfer' = <<>>

\* the handlers other than handleTransfer, which run between transfers
BetweenTransfers ==
    /\ midTransfer = <<>>
    /\ \/ Tick
       \/ \E confirmed \in BOOLEAN : handleButtonClick(confirmed)
       \/ handleButtonPress
       \/ handleButtonRelease
       \/ TimerFires
       \/ Reload

NextCrash ==
    \/ BetweenTransfers
    \/ \E i \in 1..Len(completionList) : transferFirstSave(i)
    \/ transferSecondSave
    \/ sessionEndsMidTransfer

\* page sessions in which a transfer can be cut off between its saves
SpecCrash == Init /\ [][NextCrash]_vars

\* ---- two pages on the same localStorage ----

\* handleAddEntry run by the second page: its own list and labels, the
\* shared slot
otherAddEntry ==
    /\ addedSinceReset < MaxAdds
    /\ LET newEntry == NewEntry(clock)
           listItem == createCompletedListItem(newEntry)
           saved == JSONStringify(Prepend(newEntry, loadCompletedEntries))
       IN  /\ completionEntriesSlot' = saved
           /\ otherView' =
                 [otherView EXCEPT
                    !.completionList = Prepend(listItem, @),
                    !.tabCompleted = CompletedLabelOf(saved),
                    !.tabGiven = GivenLabelOf(givenEntriesSlot)]
    /\ addedSinceReset' = addedSinceReset + 1
    /\ lastHandler' = "otherAdd"
    /\ UNCHANGED <<givenEntriesSlot, domVars, modeVars, timerVars, clock,
                   tabView, faults, midTransfer>>

\* handleTransfer run by the second page on its i-th visible row
otherTransfer(i) ==
    LET entryObject == otherView.completionList[i].entryObject
        savedCompleted ==
            JSONStringify(FilterOutId(loadCompletedEntries, entryObject.id))
        newGivenEntry == NewGivenEntry(entryObject, clock)
        savedGiven == JSONStringify(Prepend(newGivenEntry, loadGivenEntries))
    IN  /\ completionEntriesSlot' = savedCompleted
        /\ givenEntriesSlot' = savedGiven
        /\ otherView' =
              [completionList |-> RemoveAt(otherView.completionList, i),
               givenList |-> Prepend(createGivenListItem(newGivenEntry),
                                     otherView.givenList),
               tabCompleted |-> CompletedLabelOf(savedCompleted),
               tabGiven |-> GivenLabelOf(savedGiven)]
        /\ lastHandler' = "otherTransfer"
        /\ UNCHANGED <<domVars, modeVars, timerVars, clock, addedSinceReset,
                       tabView, faults, midTransfer>>

\* add and transfer gestures of the two pages, each handler run to its end
NextViews ==
    \/ Tick
    \/ \E confirmed \in BOOLEAN : handleButtonClick(confirmed)
    \/ \E i \in 1..Len(completionList) : handleTransfer(i)
    \/ otherAddEntry
    \/ \E i \in 1..Len(otherView.completionList) : otherTransfer(i)

SpecViews == Init /\ [][NextViews]_vars

\* ---- tab navigation ----

TabNames == {"completed", "given"}

TabViewFor_KeepsButton(activeTab) ==
    IF activeTab = "completed"
    THEN [tabCompletedActive |-> "yes", tabGivenActive |-> "no",
          pageCompletedHidden |-> "no", pageGivenHidden |-> "yes",
          buttonDisplay |-> "block"]
    ELSE [tabCompletedActive |-> "no", tabGivenActive |-> "yes",
          pageCompletedHidden |-> "yes", pageGivenHidden |-> "no",
          buttonDisplay |-> "block"]

\* the classes and the display handleTabClick sets in its two branches;
\* any other argument changes nothing
TabViewFor(activeTab) ==
    IF activeTab = "completed"
    THEN [tabCompletedActive |-> "yes", tabGivenActive |-> "no",
          pageCompletedHidden |-> "no", pageGivenHidden |-> "yes",
          buttonDisplay |-> "block"]
    ELSE IF activeTab = "given"
    THEN [tabCompletedActive |-> "no", tabGivenActive |-> "yes",
          pageCompletedHidden |-> "yes", pageGivenHidden |-> "no",
          buttonDisplay |-> "none"]
    ELSE tabView

\* handleTabClick: the click listener of a tab
handleTabClick(activeTab) ==
    /\ tabView' = TabViewFor(activeTab)
    /\ UNCHANGED <<storeVars, domVars, modeVars, timerVars, clock,
                   lastHandler, addedSinceReset, faults, midTransfer,
                   otherView>>

NextTabs ==
    \/ Next
    \/ \E activeTab \in TabNames : handleTabClick(activeTab)

\* one page session with its tab clicks
SpecTabs == Init /\ [][NextTabs]_vars

\* ---- handlers when storage fails ----

\* the text of a tab before updateTabCounts has run: the markup's own
MarkupLabel(name) == [name |-> name, count |-> -1]

FaultEntries == {NewEntry(0)}
FaultGivenEntries == {NewGivenEntry(e, 0) : e \in FaultEntries}

\* what a slot can hold when the page loads: nothing, an array written by
\* an earlier session, or a text that is not JSON
FaultSlots(S) ==
    {NullItem, CorruptItem, JSONStringify(<<>>)}
        \cup {JSONStringify(<<e>>) : e \in S}

\* the initial load: renderList throws at the first slot that does not
\* parse, and then neither updateTabCounts nor addEventListener runs
InitFaults ==
    /\ completionEntriesSlot \in FaultSlots(FaultEntries)
    /\ givenEntriesSlot \in FaultSlots(FaultGivenEntries)
    /\ LET thrown == LoadThrows(completionEntriesSlot)
                        \/ LoadThrows(givenEntriesSlot)
       IN  /\ completionList = IF LoadThrows(completionEntriesSlot) THEN <<>>
                                ELSE RenderCompleted(completionEntriesSlot)
           /\ givenList = IF thrown THEN <<>>
                           ELSE RenderGiven(givenEntriesSlot)
           /\ tabCompleted = IF thrown THEN MarkupLabel("Completed")
                              ELSE CompletedLabelOf(completionEntriesSlot)
           /\ tabGiven = IF thrown THEN MarkupLabel("Given")
                          ELSE GivenLabelOf(givenEntriesSlot)
           /\ \E quota \in BOOLEAN :
                 faults = [quotaExceeded |-> quota, listening |-> ~thrown,
                           uncaught |-> thrown]
           /\ addedSinceReset =
                 IF thrown THEN 0
                 ELSE Len(loadCompletedEntries) + Len(loadGivenEntries)
    /\ completeButton = PlusGlyph
    /\ pressTimer = 0
    /\ isResetMode = FALSE
    /\ timers = {}
    /\ nextTimerId = 1
    /\ clock = 0
    /\ lastHandler = "load"
    /\ earlyReleased = {}
    /\ tabView = MarkupView
    /\ midTransfer = <<>>
    /\ otherView = OtherViewOf(NullItem, NullItem)

\* a handler ends at a throw: what it did before stays done
Thrown(handler) ==
    /\ faults' = [faults EXCEPT !.uncaught = TRUE]
    /\ lastHandler' = handler
    /\ UNCHANGED <<modeVars, timerVars, clock, tabView, midTransfer,
                   otherView>>

\* handleAddEntry: the row is prepended first; loadCompletedEntries or
\* setItem may throw before the save, updateTabCounts after it
addWithFaults ==
    LET newEntry == NewEntry(clock)
        listItem == createCompletedListItem(newEntry)
        saved == JSONStringify(Prepend(newEntry, loadCompletedEntries))
    IN  IF LoadThrows(completionEntriesSlot) \/ faults.quotaExceeded
        THEN /\ addedSinceReset < MaxAdds
             /\ completionList' = Prepend(listItem, completionList)
             /\ addedSinceReset' = addedSinceReset + 1
             /\ Thrown("add")
             /\ UNCHANGED <<storeVars, givenList, tabCompleted, tabGiven>>
        ELSE IF LoadThrows(givenEntriesSlot)
        THEN /\ addedSinceReset < MaxAdds
             /\ completionList' = Prepend(listItem, completionList)
             /\ completionEntriesSlot' = saved
             /\ addedSinceReset' = addedSinceReset + 1
             /\ Thrown("add")
             /\ UNCHANGED <<givenEntriesSlot, givenList, tabCompleted,
                            tabGiven>>
        ELSE handleAddEntry

\* handleTransfer: the row is removed first; loadCompletedEntries or
\* setItem may throw before the first save, loadGivenEntries after the
\* Given row was prepended
transferWithFaults(i) ==
    LET entryObject == completionList[i].entryObject
        savedCompleted ==
            JSONStringify(FilterOutId(loadCompletedEntries, entryObject.id))
        givenListItem ==
            createGivenListItem(NewGivenEntry(entryObject, clock))
    IN  IF LoadThrows(completionEntriesSlot) \/ faults.quotaExceeded
        THEN /\ completionList' = RemoveAt(completionList, i)
             /\ Thrown("transfer")
             /\ UNCHANGED <<storeVars, givenList, tabCompleted, tabGiven,
                            addedSinceReset>>
        ELSE IF LoadThrows(givenEntriesSlot)
        THEN /\ completionList' = RemoveAt(completionList, i)
             /\ completionEntriesSlot' = savedCompleted
             /\ givenList' = Prepend(givenListItem, givenList)
             /\ Thrown("transfer")
             /\ UNCHANGED <<givenEntriesSlot, tabCompleted, tabGiven,
                            addedSinceReset>>
        ELSE handleTransfer(i)

\* handleReset: the first setItem may throw, and then exitResetMode does
\* not run
resetWithFaults(confirmed) ==
    IF confirmed /\ faults.quotaExceeded
    THEN /\ Thrown("resetConfirmed")
         /\ UNCHANGED <<storeVars, domVars, addedSinceReset>>
    ELSE handleReset(confirmed)

clickWithFaults(confirmed) ==
    /\ faults.listening
    /\ IF isResetMode THEN resetWithFaults(confirmed) ELSE addWithFaults

pressWithFaults == faults.listening /\ handleButtonPress

releaseWithFaults == faults.listening /\ handleButtonRelease

NextFaults ==
    \/ Tick
    \/ \E confirmed \in BOOLEAN : clickWithFaults(confirmed)
    \/ \E i \in 1..Len(completionList) : transferWithFaults(i)
    \/ pressWithFaults
    \/ releaseWithFaults
    \/ TimerFires

\* one page session over slots that may not parse and a store that may
\* refuse writes
SpecFaults == InitFaults /\ [][NextFaults]_vars

\* ---- properties ----

InCompleted(e) ==
    \E k \in 1..Len(loadCompletedEntries) : loadCompletedEntries[k] = e

\* C1: a transfer of an entry that is in the stored Completed sequence
\* leaves no stored Completed element with that id, makes the stored Given
\* sequence one longer, and its first element carries the entry's content.
C1_TransferPostcondition ==
    [][\A i \in 1..Len(completionList) :
         LET e == completionList[i].entryObject
         IN  (InCompleted(e) /\ handleTransfer(i)) =>
               /\ \A k \in 1..Len(loadCompletedEntries') :
                     loadCompletedEntries'[k].id # e.id
               /\ Len(loadGivenEntries') = Len(loadGivenEntries) + 1
               /\ loadGivenEntries'[1].completedOn = e.content]_vars

\* a transfer has run with other entries still stored on both sides
C1_Witness ==
    /\ lastHandler = "transfer"
    /\ Len(loadCompletedEntries) >= 1
    /\ Len(loadGivenEntries) >= 2

\* C2: the stored Completed and Given sequences together hold exactly one
\* element per add since the last confirmed reset.
C2_Conservation ==
    Len(loadCompletedEntries) + Len(loadGivenEntries) = addedSinceReset

StoredTotal == Len(loadCompletedEntries) + Len(loadGivenEntries)

\* C3: a confirmed click in armed mode empties both stored sequences, no
\* other step empties them, and armed mode is entered only by the timeout
\* of a press that no release followed before its deadline.
C3_ResetGating ==
    [][/\ (isResetMode /\ handleButtonClick(TRUE)) =>
             (Len(loadCompletedEntries') = 0 /\ Len(loadGivenEntries') = 0)
       /\ (StoredTotal > 0 /\ StoredTotal' = 0) =>
             (isResetMode /\ handleButtonClick(TRUE))
       /\ (~isResetMode /\ isResetMode') =>
             (TimerFires /\ NextDue.id \notin earlyReleased)]_vars

\* C4: a declined reset changes neither slot, neither visible list and
\* neither tab label.
C4_DeclinedResetChangesNoData ==
    [][(isResetMode /\ handleButtonClick(FALSE)) =>
          /\ loadCompletedEntries' = loadCompletedEntries
          /\ loadGivenEntries' = loadGivenEntries
          /\ UNCHANGED <<storeVars, completionList, givenList,
                         tabCompleted, tabGiven>>]_vars

\* a reset was declined while both sequences and both lists held rows
C4_Witness ==
    /\ lastHandler = "resetDeclined"
    /\ Len(loadCompletedEntries) >= 1
    /\ Len(loadGivenEntries) >= 1
    /\ Len(completionList) >= 1
    /\ Len(givenList) >= 1

\* C5: a release before the deadline leaves no timeout of an earlier press
\* pending, and the timeout of a press released before its deadline never
\* arms the button.
C5_EarlyReleaseNeverArms ==
    [][/\ handleButtonRelease => earlyReleased' = {}
       /\ TimerFires => NextDue.id \notin earlyReleased]_vars

AnyButtonClick == \E confirmed \in BOOLEAN : handleButtonClick(confirmed)

\* C6: a click handled in armed mode leaves the button in normal mode with
\* the '+' glyph whatever the dialog's answer, and within a page session
\* every other step leaves an armed button armed.
C6_ArmedLeftByOneClick ==
    [][/\ (isResetMode /\ AnyButtonClick) =>
             (~isResetMode' /\ completeButton' = PlusGlyph)
       /\ (isResetMode /\ ~AnyButtonClick) =>
             (isResetMode' /\ completeButton' = ResetGlyph)]_vars

\* a confirmed reset has just returned the button to normal mode
C6_Witness ==
    /\ lastHandler = "resetConfirmed"
    /\ ~isResetMode
    /\ completeButton.text = "+"

NewestFirst(entries) ==
    \A i, j \in 1..Len(entries) : i < j => entries[i].id >= entries[j].id

\* C7: an add in normal mode stores the new entry in front of the
\* unchanged previous sequence, and the stored Completed sequence is
\* always ordered newest first.
C7_AddPrepends ==
    /\ [][(~isResetMode /\ AnyButtonClick) =>
            /\ Len(loadCompletedEntries') = Len(loadCompletedEntries) + 1
            /\ loadCompletedEntries'[1].id = clock
            /\ loadCompletedEntries'[1].content.date = clock \div DayMs
            /\ SubSeq(loadCompletedEntries', 2, Len(loadCompletedEntries'))
                 = loadCompletedEntries]_vars
    /\ []NewestFirst(loadCompletedEntries)

\* an add at a later instant has been stored in front of an earlier one
C7_Witness ==
    /\ lastHandler = "add"
    /\ Len(loadCompletedEntries) >= 2
    /\ loadCompletedEntries[1].id > loadCompletedEntries[2].id

\* C8: after the initial load and after every handler, the Completed label
\* shows the length of the stored Completed sequence and the Given label
\* the length of the stored Given sequence.
C8_CountLabelsTrackStore ==
    /\ tabCompleted = [name |-> "Completed", count |-> Len(loadCompletedEntries)]
    /\ tabGiven = [name |-> "Given", count |-> Len(loadGivenEntries)]

\* a page load over a store holding both kinds of entries
C8_Witness ==
    /\ lastHandler = "load"
    /\ tabCompleted.count >= 1
    /\ tabGiven.count >= 1
    /\ tabCompleted.count # tabGiven.count

Rendered == lastHandler \in {"render", "render again"}

\* the visible lists show the stored sequences row for row
FaithfulProjection ==
    /\ Len(completionList) = Len(loadCompletedEntries)
    /\ \A i \in 1..Len(completionList) :
          /\ completionList[i].text = loadCompletedEntries[i].content
          /\ completionList[i].entryObject = loadCompletedEntries[i]
    /\ Len(givenList) = Len(loadGivenEntries)
    /\ \A i \in 1..Len(givenList) :
          /\ givenList[i].completedText = loadGivenEntries[i].completedOn
          /\ givenList[i].givenText = loadGivenEntries[i].givenOn

\* C9: after renderList the visible lists show the stored sequences row
\* for row whatever was visible before, and a second renderList over the
\* same store changes neither visible list.
C9_RenderFaithfulIdempotent ==
    /\ [](Rendered => FaithfulProjection)
    /\ [][(Rendered /\ RenderStep) =>
            UNCHANGED <<completionList, givenList>>]_vars

\* renderList has run twice over a store with two entries on each side
C9_Witness ==
    /\ lastHandler = "render again"
    /\ Len(completionList) = 2
    /\ Len(givenList) = 2
    /\ completionList[1] # completionList[2]

\* C10: no two elements of the stored Completed sequence have the same id.
C10_IdUniqueness ==
    \A i, j \in 1..Len(loadCompletedEntries) :
        i # j => loadCompletedEntries[i].id # loadCompletedEntries[j].id


\* C11: no handler and no initial load ends with an uncaught exception,
\* whatever the slots hold and whether or not the store accepts writes.
C11_FailuresDegrade == ~faults.uncaught

\* C12: a transfer of an entry whose id no stored Completed element has
\* leaves the stored Completed sequence as it was and still stores, in
\* front of the Given sequence, an entry carrying the row's content.
C12_TransferOfAbsentId ==
    [][\A i \in 1..Len(completionList) :
         LET e == completionList[i].entryObject
         IN  (~HasId(loadCompletedEntries, e.id) /\ handleTransfer(i)) =>
               /\ loadCompletedEntries' = loadCompletedEntries
               /\ Len(loadGivenEntries') = Len(loadGivenEntries) + 1
               /\ loadGivenEntries'[1].completedOn = e.content
               /\ SubSeq(loadGivenEntries', 2, Len(loadGivenEntries'))
                    = loadGivenEntries]_vars

\* a row whose id was no longer stored has been transferred while another
\* entry was stored
C12_Witness ==
    /\ lastHandler = "transferAbsent"
    /\ Len(loadCompletedEntries) >= 1
    /\ Len(loadGivenEntries) >= 2

ConfirmedReset == isResetMode /\ handleButtonClick(TRUE)

IsSuffix(old, new) ==
    /\ Len(old) <= Len(new)
    /\ SubSeq(new, Len(new) - Len(old) + 1, Len(new)) = old

\* C13: every step other than a confirmed reset keeps the stored Given
\* sequence as a suffix of the new one, and the only such step that
\* changes it is the transfer of a visible Completed row, which adds one
\* element.
C13_GivenAppendOnly ==
    [][~ConfirmedReset =>
         /\ IsSuffix(loadGivenEntries, loadGivenEntries')
         /\ loadGivenEntries' # loadGivenEntries =>
              /\ Len(loadGivenEntries') = Len(loadGivenEntries) + 1
              /\ \E i \in 1..Len(completionList) : handleTransfer(i)]_vars

\* two transfers on different days have been stored, the later in front
C13_Witness ==
    /\ lastHandler = "transfer"
    /\ Len(loadGivenEntries) >= 2
    /\ loadGivenEntries[1].givenOn.date > loadGivenEntries[2].givenOn.date

\* C14: a tab click marks exactly the clicked tab active, shows exactly
\* its page, shows the add button iff the tab is Completed, and changes
\* neither slot, neither label, nor the armed flag, nor a pending timeout.
C14_TabSwitching ==
    [][\A activeTab \in TabNames :
         handleTabClick(activeTab) =>
           /\ tabView'.tabCompletedActive =
                 IF activeTab = "completed" THEN "yes" ELSE "no"
           /\ tabView'.tabGivenActive =
                 IF activeTab = "given" THEN "yes" ELSE "no"
           /\ tabView'.pageCompletedHidden =
                 IF activeTab = "completed" THEN "no" ELSE "yes"
           /\ tabView'.pageGivenHidden =
                 IF activeTab = "given" THEN "no" ELSE "yes"
           /\ tabView'.buttonDisplay =
                 IF activeTab = "completed" THEN "block" ELSE "none"
           /\ UNCHANGED <<storeVars, tabCompleted, tabGiven, isResetMode,
                          pressTimer, timers>>]_vars

\* the Given tab was clicked while a press timeout was pending and entries
\* were stored
C14_Witness ==
    /\ tabView.tabGivenActive = "yes"
    /\ tabView.buttonDisplay = "none"
    /\ timers # {}
    /\ Len(loadCompletedEntries) >= 1
    /\ Len(loadGivenEntries) >= 1

\* C15: after the initial load and after every handler the visible
\* Completed rows show the stored Completed sequence row for row, and the
\* visible Given rows the stored Given sequence.
C15_ListsProjectStore ==
    /\ Len(completionList) = Len(loadCompletedEntries)
    /\ Len(givenList) = Len(loadGivenEntries)
    /\ FaithfulProjection

\* C16: a transfer of a stored entry removes from the stored Completed
\* sequence that one element and keeps every other element, unmodified and
\* in the same order.
C16_TransferRemovesOnlyItsEntry ==
    [][\A i \in 1..Len(completionList) :
         LET e == completionList[i].entryObject
         IN  (InCompleted(e) /\ handleTransfer(i)) =>
               /\ Len(loadCompletedEntries') = Len(loadCompletedEntries) - 1
               /\ \E k \in 1..Len(loadCompletedEntries) :
                     /\ loadCompletedEntries[k] = e
                     /\ loadCompletedEntries'
                          = RemoveAt(loadCompletedEntries, k)]_vars

DialogOpened == lastHandler' \in {"resetConfirmed", "resetDeclined"}

\* C17: a click handled while not armed stores exactly one new Completed
\* entry, opens no dialog and clears nothing; a click handled while armed
\* opens the dialog and stores no new Completed entry.
C17_ClickDispatchByMode ==
    [][\A confirmed \in BOOLEAN :
         handleButtonClick(confirmed) =>
           IF isResetMode
           THEN /\ DialogOpened
                /\ Len(loadCompletedEntries') <= Len(loadCompletedEntries)
                /\ Len(completionList') <= Len(completionList)
                /\ addedSinceReset' <= addedSinceReset
           ELSE /\ ~DialogOpened
                /\ Len(loadCompletedEntries') = Len(loadCompletedEntries) + 1
                /\ SubSeq(loadCompletedEntries', 2,
                          Len(loadCompletedEntries')) = loadCompletedEntries
                /\ loadGivenEntries' = loadGivenEntries
                /\ addedSinceReset' = addedSinceReset + 1]_vars

\* an armed click has emptied the store and a later click has added the
\* first entry after it
C17_Witness ==
    /\ lastHandler = "add"
    /\ givenEntriesSlot.present
    /\ Len(loadGivenEntries) = 0
    /\ Len(loadCompletedEntries) = 1

\* the entry of the cut-off transfer is stored on neither side
InNeitherSequence(completed, given) ==
    /\ ~HasId(completed, midTransfer[1].entryObject.id)
    /\ given = midTransfer[1].givenBefore

\* C18: between the two saves of a transfer the stored Completed sequence
\* no longer holds the entry's id and the stored Given sequence does not
\* hold its Given entry yet, and a session that ends there leaves the two
\* slots in that state.
C18_WriteOrderInTransfer ==
    /\ [](midTransfer # <<>> =>
            InNeitherSequence(loadCompletedEntries, loadGivenEntries))
    /\ [][sessionEndsMidTransfer =>
            /\ UNCHANGED storeVars
            /\ InNeitherSequence(loadCompletedEntries', loadGivenEntries')]_vars

\* a transfer of a stored entry is between its two saves, with other
\* entries stored on both sides
C18_Witness ==
    /\ midTransfer # <<>>
    /\ midTransfer[1].wasStored
    /\ Len(loadCompletedEntries) >= 1
    /\ Len(loadGivenEntries) >= 1

Count(entries, x) == Cardinality({k \in 1..Len(entries) : entries[k] = x})

\* every stored Completed entry is still stored, but for one copy of e
KeepsAllBut(e) ==
    \A k \in 1..Len(loadCompletedEntries) :
        LET x == loadCompletedEntries[k]
        IN  Count(loadCompletedEntries', x)
              >= Count(loadCompletedEntries, x) - (IF x = e THEN 1 ELSE 0)

\* C19: with two pages on one store, an add by either page keeps every
\* stored Completed entry behind the new one, and a transfer by either
\* page keeps every stored Completed entry but the one transferred.
C19_NoLostUpdateBetweenViews ==
    [][/\ (handleAddEntry \/ otherAddEntry) =>
            SubSeq(loadCompletedEntries', 2, Len(loadCompletedEntries'))
              = loadCompletedEntries
       /\ \A i \in 1..Len(completionList) :
            handleTransfer(i) => KeepsAllBut(completionList[i].entryObject)
       /\ \A i \in 1..Len(otherView.completionList) :
            otherTransfer(i) =>
              KeepsAllBut(otherView.completionList[i].entryObject)]_vars

\* C20: a reload in any state leaves the armed flag false and no press
\* timeout pending, shows both stored sequences row for row with their
\* lengths in the labels, and changes neither slot.
C20_ReloadRestoresDefaults ==
    [][Reload =>
         /\ ~isResetMode'
         /\ timers' = {}
         /\ pressTimer' = 0
         /\ FaithfulProjection'
         /\ tabCompleted'.count = Len(loadCompletedEntries')
         /\ tabGiven'.count = Len(loadGivenEntries')
         /\ UNCHANGED storeVars]_vars

\* the page was reloaded out of armed mode over a store with entries on
\* both sides
C20_Witness ==
    /\ lastHandler = "loadFromArmed"
    /\ ~isResetMode
    /\ Len(completionList) >= 1
    /\ Len(givenList) >= 2
    /\ givenList[1] # givenList[2]

====
